---- MODULE Spec2Model ----
(***************************************************************************)
(* A model of the calibrated moisture estimators of bonsai-watering:       *)
(*   firmware/calibrated_sensor.py  CalibratedMoistureSensor               *)
(*   model/gray_level.py            estimate_swc          (variant A)      *)
(*   analysis/gray_level.py         estimate_soil_moisture (variant B)     *)
(* and of the image conditioning in front of them:                         *)
(*   model/gray_level.py            normalize, preprocess_image,           *)
(*                                  analyze_soil, __main__                 *)
(*   analysis/gray_level.py         apply_brightness_calibration,          *)
(*                                  eliminate_gloss                        *)
(*   model/classification_utils.py  get_center_roi                         *)
(* and of the firmware around the sensor:                                  *)
(*   firmware/record_analog.py      ReadChannel                            *)
(*   firmware/run_peripheral.py     run, read_request, write_request       *)
(*   firmware/main.py               moisture_data, read_request            *)
(*   firmware/run_central.py        retry_connect, scan_and_connect        *)
(* Each part has its own specification (Spec, GraySpec, ImageSpec,         *)
(* RoiSpec, InterpSpec, AdcSpec, PeripheralSpec, MainSpec, RetrySpec,      *)
(* CentralSpec) over the same variables; the variables of the other parts  *)
(* stay idle.  PeripheralFairSpec and RetryFairSpec add the fairness of    *)
(* the steps that the event loop is bound to take.                         *)
(*                                                                         *)
(* Numbers.  The code computes in binary64.  The sensor's line fit and     *)
(* calibrate are modelled in exact rational arithmetic extended with the   *)
(* IEEE specials nan, inf and -inf (a number is a record k, n, d).  The    *)
(* gray-level estimators are modelled in fixed point: a gray level is an   *)
(* integer count of 1/GScale, a ratio is an integer count of               *)
(* 1/(Scale*Scale), a square root and a percentage are integer counts of   *)
(* 1/Scale, every division and square root rounding down.                  *)
(***************************************************************************)
EXTENDS Integers, Sequences, FiniteSets, TLC

VARIABLES
    \* ---- CalibratedMoistureSensor (firmware/calibrated_sensor.py)
    constructed,          \* TRUE once __init__ has returned an instance
    calibration_points,   \* self.calibration_points
    slope,                \* self.slope
    intercept,            \* self.intercept
    spi,                  \* state of self.spi: "none", "open" or "closed"
    given,                \* the calibration_points argument given to __init__
    op,                   \* the last operation of the sensor that ran
    arg,                  \* its argument
    ret,                  \* what it returned
    err,                  \* the exception it raised, "none" when it returned
    \* ---- gray-level estimators (model/ and analysis/ gray_level.py)
    consts,               \* the constants the estimators are called with
    fn,                   \* the estimator called last
    G,                    \* its gray-level argument, in 1/GScale
    numpyArg,             \* TRUE when the argument is a numpy float64
    outcome,              \* what the call produced
    \* ---- image conditioning (model/ and analysis/ gray_level.py)
    image,                \* the image the conditioning step was called with
    imgFn,                \* the conditioning function called last
    imgOut,               \* what it produced
    \* ---- get_center_roi (model/classification_utils.py)
    roiIn,                \* the image shape and roi_size of the last call
    roiOut,               \* the slice bounds it returned
    \* ---- the piecewise-linear interpolation strategy (spec.md 4.2)
    points,               \* the calibration points, sorted at construction
    rawValue,             \* the raw value of the last query
    value,                \* the value the last query returned
    interpErr,            \* "none", or the error of the last construction
    \* ---- the MCP3008 read-out (calibrated_sensor.py, record_analog.py)
    adcFn,                \* the read-out function called last
    adcIn,                \* the 3-byte SPI response it received
    adcOut,               \* the ADC code it returned
    \* ---- the BLE peripheral (firmware/run_peripheral.py)
    runPc,                \* where run() stands: "init", "waiting" (for the
                          \* trigger), "stopping" (awaiting server.stop()) or
                          \* "stopped"
    moisture_sensor,      \* the global: "None", or the instance by the state
                          \* of its SPI device, "open" or "closed"
    charValue,            \* characteristic.value, a sequence of bytes
    trigger,              \* TRUE while the trigger event is set
    update_task,          \* the task running update_moisture_readings,
                          \* "none" while no such task has been created
    pOp,                  \* the last request served: "none", "read", "write"
    pArg,                 \* the value written, or the SPI response offered
    pBefore,              \* characteristic.value when the request arrived
    pRet,                 \* the bytes read_request returned
    pExc,                 \* the exception read_request raised, or "none"
    pRead,                \* how its sensor read went: "skipped" (no sensor),
                          \* "raised", "ok"; "none" for a write
    pSpi,                 \* the state of the SPI device when read_calibrated
                          \* was called, "none" when it was not called
    \* ---- the GPIO peripheral (firmware/main.py)
    moisture_data,        \* the deque, oldest reading first; a reading is
                          \* <<moisture, timestamp>>
    acquired,             \* every reading taken so far, in acquisition order
    mainOp,               \* the last step: "none", "sample" or "read"
    snapshot,             \* the bytes the last read request returned
    \* ---- the BLE central (firmware/run_central.py)
    cPc,                  \* where scan_and_connect stands: "idle" (not
                          \* running), "scan" (start of a scan cycle),
                          \* "connect" (in retry_connect), "discover", "bail"
                          \* (about to disconnect and continue), "read",
                          \* "comm" (communication loop), "finish" (line 216)
    linkUp,               \* client.is_connected of the client of this cycle
    cDisc,                \* failed service discovery attempts of this session
    cI,                   \* the index i of the communication loop
    cWrites,              \* write_gatt_char calls made on this connection
    cExit,                \* how the last session ended, "none" during one
    rcMax,                \* retry_connect: max_attempts
    rcAttempt,            \* attempts made
    rcPc,                 \* "idle", "attempt", "sleep" or "done"
    rcResult,             \* "pending", "client", "None" or "raised"
    rcLast,               \* outcome of the last attempt, "none" before it
    rcExc                 \* the exception retry_connect let out, or "none"

sensorVars == <<constructed, calibration_points, slope, intercept, spi, given,
                op, arg, ret, err>>
grayVars == <<consts, fn, G, numpyArg, outcome>>
imageVars == <<image, imgFn, imgOut>>
roiVars == <<roiIn, roiOut>>
interpVars == <<points, rawValue, value, interpErr>>
adcVars == <<adcFn, adcIn, adcOut>>
periphVars == <<runPc, moisture_sensor, charValue, trigger, update_task,
                pOp, pArg, pBefore, pRet, pExc, pRead, pSpi>>
mainVars == <<moisture_data, acquired, mainOp, snapshot>>
centralVars == <<cPc, linkUp, cDisc, cI, cWrites, cExit,
                 rcMax, rcAttempt, rcPc, rcResult, rcLast, rcExc>>
firmwareVars == <<adcVars, periphVars, mainVars, centralVars>>
estimatorVars == <<sensorVars, grayVars, imageVars, roiVars, interpVars>>
vars == <<estimatorVars, firmwareVars>>
notSensorVars == <<grayVars, imageVars, roiVars, interpVars, firmwareVars>>
notGrayVars == <<sensorVars, imageVars, roiVars, interpVars, firmwareVars>>
notImageVars == <<sensorVars, grayVars, roiVars, interpVars, firmwareVars>>
notRoiVars == <<sensorVars, grayVars, imageVars, interpVars, firmwareVars>>
notInterpVars == <<sensorVars, grayVars, imageVars, roiVars, firmwareVars>>
notAdcVars == <<estimatorVars, periphVars, mainVars, centralVars>>
notPeriphVars == <<estimatorVars, adcVars, mainVars, centralVars>>
notMainVars == <<estimatorVars, adcVars, periphVars, centralVars>>
notCentralVars == <<estimatorVars, adcVars, periphVars, mainVars>>

(***************************************************************************)
(* Bounds of the model.                                                    *)
(***************************************************************************)
MaxPoints == 3      \* longest calibration_points list given to __init__
MaxRaw == 2         \* raw values of the given points lie in 1..MaxRaw
MaxRef == 1         \* reference values of the given points lie in 0..MaxRef
FarRaw == 100000    \* a raw value far outside the 10-bit ADC range
Scale == 1000       \* fixed-point resolution of square roots and percentages
GScale == 2         \* fixed-point resolution of a gray level
Margin == 2         \* gray levels are tried up to Margin outside [Gs, G0]
MaxGL == 3          \* the small constant sets take G0, Gs in 1..MaxGL
MaxTheta == 2       \* and theta_s in 1..MaxTheta
MaxPixels == 3      \* images have 0..MaxPixels pixels
MaxSide == 4        \* image heights and widths lie in 0..MaxSide
MaxRoi == 5         \* requested ROI heights and widths lie in 0..MaxRoi
MaxSamples == 26    \* main.py's sampling thread takes at most MaxSamples readings
MaxWet == 1         \* of which at most MaxWet read 1 on the GPIO pin
MaxAttempts == 5    \* retry_connect is called with max_attempts in -1..MaxAttempts

(***************************************************************************)
(* Extended numbers: exact rationals n/d (d > 0, lowest terms) and the     *)
(* IEEE specials.                                                          *)
(***************************************************************************)
Abs(x) == IF x < 0 THEN -x ELSE x

Sign(x) == IF x < 0 THEN -1 ELSE IF x > 0 THEN 1 ELSE 0

RECURSIVE GCD(_, _)
GCD(a, b) == IF b = 0 THEN a ELSE GCD(b, a % b)

NaN == [k |-> "nan", n |-> 0, d |-> 1]
PInf == [k |-> "inf", n |-> 1, d |-> 1]
NInf == [k |-> "inf", n |-> -1, d |-> 1]

\* the rational n/d, d # 0, in lowest terms with a positive denominator
Rat(n, d) ==
    LET g == GCD(Abs(n), Abs(d))
        s == IF d < 0 THEN -1 ELSE 1
    IN  [k |-> "fin", n |-> s * (n \div g), d |-> s * (d \div g)]

Num(i) == [k |-> "fin", n |-> i, d |-> 1]

\* binary64 multiplication: nan absorbs, 0 * inf is nan
ExtMul(a, b) ==
    IF a.k = "nan" \/ b.k = "nan" THEN NaN
    ELSE IF a.k = "inf" \/ b.k = "inf"
         THEN IF a.n = 0 \/ b.n = 0 THEN NaN
              ELSE IF Sign(a.n) * Sign(b.n) > 0 THEN PInf ELSE NInf
         ELSE Rat(a.n * b.n, a.d * b.d)

\* binary64 addition: nan absorbs, inf + -inf is nan
ExtAdd(a, b) ==
    IF a.k = "nan" \/ b.k = "nan" THEN NaN
    ELSE IF a.k = "inf" /\ b.k = "inf"
         THEN IF a.n = b.n THEN a ELSE NaN
         ELSE IF a.k = "inf" THEN a
         ELSE IF b.k = "inf" THEN b
         ELSE LET g == GCD(a.d, b.d)
              IN  Rat(a.n * (b.d \div g) + b.n * (a.d \div g), (a.d \div g) * b.d)

\* a - b on extended numbers
ExtSub(a, b) == ExtAdd(a, ExtMul(Num(-1), b))

\* a > b as Python compares floats: any comparison with nan is False
ExtGt(a, b) ==
    IF a.k = "nan" \/ b.k = "nan" THEN FALSE
    ELSE IF a.k = "inf" THEN a.n > 0 /\ ~(b.k = "inf" /\ b.n > 0)
    ELSE IF b.k = "inf" THEN b.n < 0
    ELSE a.n * b.d > b.n * a.d

\* a >= b, False when either is nan
ExtGe(a, b) == a.k # "nan" /\ b.k # "nan" /\ ~ExtGt(b, a)

\* Python's max(a, b): a unless b > a
PyMax(a, b) == IF ExtGt(b, a) THEN b ELSE a

(***************************************************************************)
(* CalibratedMoistureSensor, firmware/calibrated_sensor.py                 *)
(***************************************************************************)
\* the default calibration of __init__
DefaultPoints == <<<<0, 0>>, <<84, 5>>, <<286, 10>>, <<495, 15>>, <<650, 20>>>>

\* the calibration_points arguments tried: None, or a list of at most
\* MaxPoints (raw, reference) pairs
PointPairs == (1..MaxRaw) \X (0..MaxRef)

PointLists == UNION {[1..len -> PointPairs] : len \in 0..MaxPoints}

GivenPoints == {[none |-> TRUE, pts |-> <<>>]}
                   \cup {[none |-> FALSE, pts |-> l] : l \in PointLists}

\* <<sum x, sum y, sum x*x, sum x*y>> over the points
RECURSIVE Sums(_)
Sums(pts) ==
    IF pts = <<>> THEN <<0, 0, 0, 0>>
    ELSE LET p == Head(pts)
             r == Sums(Tail(pts))
         IN  <<r[1] + p[1], r[2] + p[2], r[3] + p[1] * p[1], r[4] + p[1] * p[2]>>

Fit(e, m, b) == [err |-> e, slope |-> m, intercept |-> b]

\* np.polyfit(x, y, 1): the outcomes of the degree-1 least-squares fit.
\*  - no point: TypeError (expected non-empty vector for x);
\*  - two distinct raw values or more: the least-squares line;
\*  - one raw value a # 0 only (rank 1): no error, only a RankWarning, and
\*    the minimum-norm solution of the column-scaled system,
\*    slope = mean(y)/(2a), intercept = mean(y)/2;
\*  - every raw value 0: the column scaling divides 0 by 0, the matrix holds
\*    nan, and lstsq either raises LinAlgError or returns nan coefficients,
\*    depending on the LAPACK build.
polyfit(pts) ==
    IF Len(pts) = 0 THEN {Fit("TypeError", NaN, NaN)}
    ELSE LET n == Len(pts)
             S == Sums(pts)
             den == n * S[3] - S[1] * S[1]
             a == pts[1][1]
         IN  IF den # 0
             THEN {Fit("none", Rat(n * S[4] - S[1] * S[2], den),
                               Rat(S[2] * S[3] - S[1] * S[4], den))}
             ELSE IF a # 0
                  THEN {Fit("none", Rat(S[2], 2 * a * n), Rat(S[2], 2 * n))}
                  ELSE {Fit("LinAlgError", NaN, NaN), Fit("none", NaN, NaN)}

\* line 22: calibration_points or [default]; None and [] are both falsy
PointsOrDefault(g) == IF g.none \/ g.pts = <<>> THEN DefaultPoints ELSE g.pts

\* __init__: open the SPI bus, keep the points, fit the line.  A failing
\* spi.open or polyfit raises out of __init__ and no instance exists.
CalibratedMoistureSensor_init(g, spiOk) ==
    /\ given' = g
    /\ op' = "__init__"
    /\ arg' = NaN
    /\ ret' = NaN
    /\ IF ~spiOk
       THEN /\ err' = "OSError"
            /\ UNCHANGED <<constructed, calibration_points, slope, intercept, spi>>
       ELSE \E f \in polyfit(PointsOrDefault(g)) :
                /\ err' = f.err
                /\ IF f.err = "none"
                   THEN /\ constructed' = TRUE
                        /\ spi' = "open"
                        /\ calibration_points' = PointsOrDefault(g)
                        /\ slope' = f.slope
                        /\ intercept' = f.intercept
                   ELSE /\ spi' = "open"
                        /\ UNCHANGED <<constructed, calibration_points, slope,
                                       intercept>>
    /\ UNCHANGED notSensorVars

\* one instance is modelled: the constructor runs once, first
Construct ==
    /\ spi = "none"
    /\ op = "none"
    /\ \E g \in GivenPoints, spiOk \in BOOLEAN : CalibratedMoistureSensor_init(g, spiOk)

\* line 67: water_content = self.slope * raw_value + self.intercept
water_content(raw) == ExtAdd(ExtMul(slope, raw), intercept)

\* calibrate without the floor of line 70
calibrate_unfloored(raw) == water_content(raw)

\* calibrate(raw_value): max(0, water_content)
calibrate(raw) == PyMax(Num(0), water_content(raw))

\* the raw values calibrate is called with: ADC codes, values far outside
\* the 10-bit range, and the binary64 specials
RawArgs == {Num(r) : r \in {-FarRaw, -1, 0, 1, 2, 3, 1023, FarRaw}}
               \cup {NaN, PInf, NInf}

Calibrate(raw) ==
    /\ constructed
    /\ op' = "calibrate"
    /\ arg' = raw
    /\ ret' = calibrate(raw)
    /\ err' = "none"
    /\ UNCHANGED <<constructed, calibration_points, slope, intercept, spi, given>>
    /\ UNCHANGED notSensorVars

\* the 3-byte SPI responses that the model tries
SpiResponses == {<<0, 0, 0>>, <<0, 3, 255>>, <<0, 4, 0>>, <<0, 252, 1>>, <<255, 255, 255>>}

\* line 35 with the mask of the second byte left out
adc_code_unmasked(adc) == (adc[2] * 256) + adc[3]

\* line 35: ((adc[1] & 3) << 8) + adc[2]
adc_code(adc) == ((adc[2] % 4) * 256) + adc[3]

\* read_raw(): one SPI transfer on the open bus; on a closed bus xfer2 raises
ReadRaw(adc) ==
    /\ constructed
    /\ op' = "read_raw"
    /\ arg' = NaN
    /\ IF spi = "open"
       THEN ret' = Num(adc_code(adc)) /\ err' = "none"
       ELSE ret' = NaN /\ err' = "OSError"
    /\ UNCHANGED <<constructed, calibration_points, slope, intercept, spi, given>>
    /\ UNCHANGED notSensorVars

\* read_calibrated() of a variant that records each reading as a new
\* calibration point
ReadCalibrated_recording(adc) ==
    /\ constructed
    /\ op' = "read_calibrated"
    /\ IF spi = "open"
       THEN /\ arg' = Num(adc_code(adc))
            /\ ret' = calibrate(Num(adc_code(adc)))
            /\ err' = "none"
            /\ calibration_points' =
                   Append(calibration_points, <<adc_code(adc), 0>>)
       ELSE arg' = NaN /\ ret' = NaN /\ err' = "OSError"
            /\ UNCHANGED calibration_points
    /\ UNCHANGED <<constructed, slope, intercept, spi, given>>
    /\ UNCHANGED notSensorVars

\* read_calibrated(): calibrate(read_raw())
ReadCalibrated(adc) ==
    /\ constructed
    /\ op' = "read_calibrated"
    /\ IF spi = "open"
       THEN /\ arg' = Num(adc_code(adc))
            /\ ret' = calibrate(Num(adc_code(adc)))
            /\ err' = "none"
       ELSE arg' = NaN /\ ret' = NaN /\ err' = "OSError"
    /\ UNCHANGED <<constructed, calibration_points, slope, intercept, spi, given>>
    /\ UNCHANGED notSensorVars

\* Python's round() of the rational n/d, d > 0: to the nearest integer, a tie
\* to the even one
RoundHalfEven(n, d) ==
    LET q == n \div d
        r == n % d
    IN  IF 2 * r < d THEN q
        ELSE IF 2 * r > d THEN q + 1
        ELSE IF q % 2 = 0 THEN q ELSE q + 1

\* line 42: int(round(raw_value / 10.24)); the binary64 quotient rounds as the
\* exact raw * 25 / 256 does for every 10-bit raw value
percent(raw) == RoundHalfEven(raw * 25, 256)

\* read_percent(): the raw reading on the 0..100 scale
ReadPercent(adc) ==
    /\ constructed
    /\ op' = "read_percent"
    /\ IF spi = "open"
       THEN /\ arg' = Num(adc_code(adc))
            /\ ret' = Num(percent(adc_code(adc)))
            /\ err' = "none"
       ELSE arg' = NaN /\ ret' = NaN /\ err' = "OSError"
    /\ UNCHANGED <<constructed, calibration_points, slope, intercept, spi, given>>
    /\ UNCHANGED notSensorVars

\* lines 58-59: rel_percent = abs_percent / 15.0; int(round(rel_percent * 100));
\* round() of nan raises ValueError, of an infinity OverflowError
relative_percent(abs_percent) ==
    IF abs_percent.k = "nan" THEN [ret |-> NaN, err |-> "ValueError"]
    ELSE IF abs_percent.k = "inf" THEN [ret |-> NaN, err |-> "OverflowError"]
    ELSE [ret |-> Num(RoundHalfEven(abs_percent.n * 20, abs_percent.d * 3)),
          err |-> "none"]

\* read_calibrated_percent(): calibrate(read_raw()) relative to 15 %
ReadCalibratedPercent(adc) ==
    /\ constructed
    /\ op' = "read_calibrated_percent"
    /\ IF spi = "open"
       THEN /\ arg' = Num(adc_code(adc))
            /\ ret' = relative_percent(calibrate(Num(adc_code(adc)))).ret
            /\ err' = relative_percent(calibrate(Num(adc_code(adc)))).err
       ELSE arg' = NaN /\ ret' = NaN /\ err' = "OSError"
    /\ UNCHANGED <<constructed, calibration_points, slope, intercept, spi, given>>
    /\ UNCHANGED notSensorVars

\* close(): self.spi.close()
Close ==
    /\ constructed
    /\ op' = "close"
    /\ arg' = NaN
    /\ ret' = NaN
    /\ err' = "none"
    /\ spi' = "closed"
    /\ UNCHANGED <<constructed, calibration_points, slope, intercept, given>>
    /\ UNCHANGED notSensorVars

(***************************************************************************)
(* The closed-form estimators, model/gray_level.py (variant A) and         *)
(* analysis/gray_level.py (variant B)                                      *)
(***************************************************************************)
THETA_S == 17
GL_0 == 120
GL_S == 95
B_GL_0 == 157
B_GL_s == 75
B_u_s == 50

\* what a call produced: kind "return" with the value returned (in 1/Scale,
\* or nan), or kind "raise" with the exception; printed is the message the
\* call wrote to stdout
Outcome(k, v, isnan, e, p) ==
    [value |-> v, kind |-> k, nan |-> isnan, exc |-> e, printed |-> p]

NoOutcome == Outcome("none", 0, FALSE, "none", "none")

Return(v) == Outcome("return", v, FALSE, "none", "none")

ReturnNaN == Outcome("return", 0, TRUE, "none", "none")

Raise(e) == Outcome("raise", 0, FALSE, e, "none")

\* the largest r with r*r <= n, between lo and hi
RECURSIVE SqrtSearch(_, _, _)
SqrtSearch(n, lo, hi) ==
    IF lo >= hi THEN lo
    ELSE LET mid == (lo + hi + 1) \div 2
         IN  IF mid * mid <= n THEN SqrtSearch(n, mid, hi)
             ELSE SqrtSearch(n, lo, mid - 1)

\* np.sqrt of a ratio in 1/(Scale*Scale), in 1/Scale
sqrt(ratio) == SqrtSearch(ratio, 0, IF ratio > 46340 THEN 46340 ELSE ratio)

\* (g - Gs) / (G0 - Gs) for G0 # Gs, in 1/(Scale*Scale); g is in 1/GScale
Ratio(g, c) ==
    LET num == (g - c.Gs * GScale) * Scale * Scale
        den == (c.G0 - c.Gs) * GScale
    IN  IF den < 0 THEN (-num) \div (-den) ELSE num \div den

\* estimate_swc with the ratio taken from the other end, (G0 - G)/(G0 - Gs)
estimate_swc_flipped(g, c, np) ==
    IF g > c.G0 * GScale \/ g < c.Gs * GScale
    THEN Outcome("return", 0, FALSE, "none", "Invalid gray level")
    ELSE IF c.G0 = c.Gs
         THEN IF np THEN ReturnNaN ELSE Raise("ZeroDivisionError")
         ELSE Return(c.theta_s * (Scale - sqrt(Scale * Scale - Ratio(g, c))))

\* estimate_swc with the square root added instead of subtracted
estimate_swc_plus(g, c, np) ==
    IF g > c.G0 * GScale \/ g < c.Gs * GScale
    THEN Outcome("return", 0, FALSE, "none", "Invalid gray level")
    ELSE IF c.G0 = c.Gs
         THEN IF np THEN ReturnNaN ELSE Raise("ZeroDivisionError")
         ELSE Return(c.theta_s * (Scale + sqrt(Ratio(g, c))))

\* estimate_swc without the complement: theta_s * sqrt(ratio)
estimate_swc_no_complement(g, c, np) ==
    IF g > c.G0 * GScale \/ g < c.Gs * GScale
    THEN Outcome("return", 0, FALSE, "none", "Invalid gray level")
    ELSE IF c.G0 = c.Gs
         THEN IF np THEN ReturnNaN ELSE Raise("ZeroDivisionError")
         ELSE Return(c.theta_s * sqrt(Ratio(g, c)))

\* variant A, model/gray_level.py: estimate_swc(G, G0, Gs, theta_s).
\* With G0 = Gs the division of line 20 is 0/0: ZeroDivisionError for a
\* Python int or float G, nan for a numpy float64 G, and nan passes the
\* ratio test of line 21 and is returned.
estimate_swc(g, c, np) ==
    IF g > c.G0 * GScale \/ g < c.Gs * GScale
    THEN Outcome("return", 0, FALSE, "none", "Invalid gray level")
    ELSE IF c.G0 = c.Gs
         THEN IF np THEN ReturnNaN ELSE Raise("ZeroDivisionError")
         ELSE LET ratio == Ratio(g, c)
              IN  IF ratio < 0 \/ ratio > Scale * Scale
                  THEN Outcome("return", 0, FALSE, "none", "Invalid ratio")
                  ELSE Return(c.theta_s * (Scale - sqrt(ratio)))

\* estimate_soil_moisture whose range test rejects the two endpoints too
estimate_soil_moisture_open(g, c, np) ==
    IF g <= c.Gs * GScale \/ g >= c.G0 * GScale
    THEN Raise("ValueError")
    ELSE Return(c.theta_s * Scale - c.theta_s * sqrt(Ratio(g, c)))

\* variant B, analysis/gray_level.py:
\* estimate_soil_moisture(gray_level, GL_0, GL_s, u_s); theta_s holds u_s
estimate_soil_moisture(g, c, np) ==
    IF g < c.Gs * GScale \/ g > c.G0 * GScale
    THEN Raise("ValueError")
    ELSE IF c.G0 = c.Gs
         THEN IF np THEN ReturnNaN ELSE Raise("ZeroDivisionError")
         ELSE Return(c.theta_s * Scale - c.theta_s * sqrt(Ratio(g, c)))

Consts(g0, gs, t, dflt) == [Gs |-> gs, G0 |-> g0, theta_s |-> t, default |-> dflt]

\* the constants the estimators are called with: each function's own
\* defaults, or explicit small ones (G0 > Gs, G0 = Gs and G0 < Gs)
ConstSets == {Consts(0, 0, 0, TRUE)}
                 \cup {Consts(g0, gs, t, FALSE) :
                         g0 \in 1..MaxGL, gs \in 1..MaxGL, t \in 1..MaxTheta}

\* the constants function f runs with
ConstsOf(f) ==
    IF ~consts.default THEN consts
    ELSE IF f = "estimate_swc" THEN Consts(GL_0, GL_S, THETA_S, TRUE)
    ELSE Consts(B_GL_0, B_GL_s, B_u_s, TRUE)

Min(a, b) == IF a < b THEN a ELSE b

Max(a, b) == IF a > b THEN a ELSE b

\* the gray levels tried with constants c, in 1/GScale: from Margin below
\* the smaller of Gs, G0 to Margin above the larger
GrayArgs(c) == ((Min(c.Gs, c.G0) - Margin) * GScale) .. ((Max(c.Gs, c.G0) + Margin) * GScale)

InRange(g, c) == c.Gs * GScale <= g /\ g <= c.G0 * GScale

EstimateSwc(g, np) ==
    /\ fn' = "estimate_swc"
    /\ G' = g
    /\ numpyArg' = np
    /\ outcome' = estimate_swc(g, ConstsOf("estimate_swc"), np)
    /\ UNCHANGED consts
    /\ UNCHANGED notGrayVars

EstimateSoilMoisture(g, np) ==
    /\ fn' = "estimate_soil_moisture"
    /\ G' = g
    /\ numpyArg' = np
    /\ outcome' = estimate_soil_moisture(g, ConstsOf("estimate_soil_moisture"), np)
    /\ UNCHANGED consts
    /\ UNCHANGED notGrayVars

(***************************************************************************)
(* Image conditioning: normalize, preprocess_image, analyze_soil and the   *)
(* __main__ pipeline of model/gray_level.py; apply_brightness_calibration   *)
(* and eliminate_gloss of analysis/gray_level.py.  An image is the sequence *)
(* of its uint8 pixels; preprocess_image is given the grayscale image that  *)
(* cv2.cvtColor makes of the ROI.                                           *)
(***************************************************************************)
\* the pixel values images are built from
PixelValues == {0, 3, 100, 255}

Images == UNION {[1..n -> PixelValues] : n \in 0..MaxPixels}

\* model/gray_level.py line 37 and analysis/gray_level.py line 43
gloss_threshold == 230

mean_threshold == 10

\* what a nan becomes in astype(np.uint8): the conversion is undefined, the
\* builds give 0 or all bits set
NanCast == {0, 255}

\* a mean sum/cnt; the 0 that analyze_soil uses when there is nothing to average
NoAvg == [sum |-> 0, cnt |-> 1]

\* the result of a conditioning call: kind "return" or "raise" with the
\* exception, the images returned, the gray value and the estimate
ImgOut(k, e, g, ng, a, w) ==
    [kind |-> k, exc |-> e, gray |-> g, no_gloss |-> ng, avg |-> a, swc |-> w]

ImgReturn(g) == ImgOut("return", "none", g, <<>>, NoAvg, NoOutcome)

ImgRaise(e) == ImgOut("raise", e, <<>>, <<>>, NoAvg, NoOutcome)

RECURSIVE Sum(_)
Sum(seq) == IF seq = <<>> THEN 0 ELSE Head(seq) + Sum(Tail(seq))

RECURSIVE InsertSorted(_, _)
InsertSorted(v, sorted) ==
    IF sorted = <<>> THEN <<v>>
    ELSE IF v <= Head(sorted) THEN <<v>> \o sorted
    ELSE <<Head(sorted)>> \o InsertSorted(v, Tail(sorted))

RECURSIVE SortPixels(_)
SortPixels(seq) ==
    IF seq = <<>> THEN <<>> ELSE InsertSorted(Head(seq), SortPixels(Tail(seq)))

\* np.percentile(a, q), linear method, of the sorted non-empty a, in 1/100:
\* the virtual index is (n - 1) * q / 100, the result interpolates between
\* its two neighbours.  rounded says that the binary64 result went through
\* an inexact product (the neighbours differ and the weight is not 0).
percentile(sorted, q) ==
    LET n == Len(sorted)
        lo == ((n - 1) * q) \div 100
        gamma == ((n - 1) * q) % 100
        hi == Min(lo + 1, n - 1)
    IN  [v |-> 100 * sorted[lo + 1] + (sorted[hi + 1] - sorted[lo + 1]) * gamma,
         rounded |-> sorted[hi + 1] # sorted[lo + 1] /\ gamma # 0]

\* normalize(gray), lines 28-35.  An empty image makes np.percentile raise; a
\* constant one makes p99 - p1 zero, the quotient 0/0 is nan and its cast
\* to uint8 is returned.  Otherwise a pixel becomes the clipped quotient
\* truncated by astype.  The quotient is exact in the model; binary64
\* rounds it, which matters only where the exact quotient is an integer and
\* a percentile was rounded: there the truncation may give that integer or
\* the one below it, the same for equal pixels.
normalize(gray) ==
    IF gray = <<>> THEN {ImgRaise("IndexError"), ImgRaise("ValueError")}
    ELSE LET p1 == percentile(SortPixels(gray), 1)
             p99 == percentile(SortPixels(gray), 99)
             den == p99.v - p1.v
             num(v) == (100 * v - p1.v) * 255
             clipped(v) == IF num(v) <= 0 THEN 0
                           ELSE IF num(v) >= 255 * den THEN 255
                           ELSE num(v) \div den
             boundary == {v \in {gray[i] : i \in 1..Len(gray)} :
                             /\ p1.rounded \/ p99.rounded
                             /\ num(v) > 0
                             /\ num(v) <= 255 * den
                             /\ num(v) % den = 0}
         IN  IF den = 0
             THEN {ImgReturn([i \in 1..Len(gray) |-> c]) : c \in NanCast}
             ELSE {ImgReturn([i \in 1..Len(gray) |->
                       IF gray[i] \in below
                       THEN clipped(gray[i]) - 1
                       ELSE clipped(gray[i])]) : below \in SUBSET boundary}

\* preprocess_image(image), lines 37-46, on the grayscale ROI: cvtColor
\* rejects an empty image, normalize returns gray, and no_gloss is a copy of
\* it with the pixels above gloss_threshold set to 0
preprocess_image(gray) ==
    IF gray = <<>> THEN {ImgRaise("cv2.error")}
    ELSE {ImgOut("return", "none", o.gray,
                 [i \in 1..Len(o.gray) |->
                     IF o.gray[i] > gloss_threshold THEN 0 ELSE o.gray[i]],
                 NoAvg, NoOutcome) : o \in normalize(gray)}

\* estimate_swc(avg_gray) with the default constants for the mean s/n
estimate_swc_mean(s, n) ==
    IF s > GL_0 * n \/ s < GL_S * n
    THEN Outcome("return", 0, FALSE, "none", "Invalid gray level")
    ELSE Return(THETA_S * (Scale - sqrt(((s - GL_S * n) * Scale * Scale)
                                        \div ((GL_0 - GL_S) * n))))

\* the pixels of gray_img that are > 0
valid_pixels(gray_img) == SelectSeq(gray_img, LAMBDA v : v > 0)

\* analyze_soil that averages the valid pixels without testing that there
\* are any: the mean of no pixels is nan, written sum/0
analyze_soil_unguarded(gray_img) ==
    LET valid == valid_pixels(gray_img)
    IN  ImgOut("return", "none", <<>>, <<>>,
               [sum |-> Sum(valid), cnt |-> Len(valid)], NoOutcome)

\* analyze_soil(gray_img), lines 48-52
analyze_soil(gray_img) ==
    LET valid == valid_pixels(gray_img)
        avg_gray == IF Len(valid) > 0 THEN [sum |-> Sum(valid), cnt |-> Len(valid)]
                    ELSE NoAvg
    IN  ImgOut("return", "none", <<>>, <<>>, avg_gray,
               estimate_swc_mean(avg_gray.sum, avg_gray.cnt))

\* __main__, lines 87-88: gray, gray_no_gloss = preprocess_image(roi);
\* avg, swc = analyze_soil(gray)
main(roi) ==
    {IF o.kind = "raise" THEN o
     ELSE ImgOut("return", "none", o.gray, o.no_gloss,
                 analyze_soil(o.gray).avg, analyze_soil(o.gray).swc) :
        o \in preprocess_image(roi)}

\* k is a power of two
RECURSIVE IsPow2(_)
IsPow2(k) == k = 1 \/ (k > 1 /\ k % 2 = 0 /\ IsPow2(k \div 2))

\* apply_brightness_calibration(image), analysis/gray_level.py lines 35-41,
\* with white_ref = 255 and black_ref = 0.  On an empty image cv2.minMaxLoc
\* raises or reports 0, 0 and the empty image is returned; a constant image
\* makes each pixel 0/0 = nan and its cast is returned.  Otherwise a pixel
\* is ((v - min) / (max - min)) * 255 truncated; where the exact product is
\* an integer and the quotient was rounded, the truncation may give that
\* integer or the one below it.
apply_brightness_calibration(img) ==
    IF img = <<>> THEN {ImgRaise("cv2.error"), ImgReturn(<<>>)}
    ELSE LET sorted == SortPixels(img)
             min_val == sorted[1]
             range == sorted[Len(sorted)] - sorted[1]
             floor(v) == ((v - min_val) * 255) \div range
             boundary == {v \in {img[i] : i \in 1..Len(img)} :
                             /\ v > min_val
                             /\ ((v - min_val) * 255) % range = 0
                             /\ ~IsPow2(range \div GCD(v - min_val, range))}
         IN  IF range = 0
             THEN {ImgReturn([i \in 1..Len(img) |-> c]) : c \in NanCast}
             ELSE {ImgReturn([i \in 1..Len(img) |->
                       IF img[i] \in below
                       THEN floor(img[i]) - 1
                       ELSE floor(img[i])]) : below \in SUBSET boundary}

\* eliminate_gloss that rounds the mean to the nearest integer
eliminate_gloss_rounded(img) ==
    ImgReturn([i \in 1..Len(img) |->
        IF img[i] * Len(img) > Sum(img) + mean_threshold * Len(img)
        THEN RoundHalfEven(Sum(img), Len(img))
        ELSE img[i]])

\* eliminate_gloss(image), analysis/gray_level.py lines 43-49, threshold 10:
\* np.where puts the float mean in place of the pixels above
\* mean + threshold and astype(np.uint8) truncates it
eliminate_gloss(img) ==
    ImgReturn([i \in 1..Len(img) |->
        IF img[i] * Len(img) > Sum(img) + mean_threshold * Len(img)
        THEN Sum(img) \div Len(img)
        ELSE img[i]])

\* a call of one conditioning function on img, with one of its outcomes
Conditioned(f, img, outs) ==
    /\ image' = img
    /\ imgFn' = f
    /\ imgOut' \in outs

Normalize ==
    /\ UNCHANGED notImageVars
    /\ \E img \in Images : Conditioned("normalize", img, normalize(img))

PreprocessImage ==
    /\ UNCHANGED notImageVars
    /\ \E img \in Images :
           Conditioned("preprocess_image", img, preprocess_image(img))

AnalyzeSoil ==
    /\ UNCHANGED notImageVars
    /\ \E img \in Images : Conditioned("analyze_soil", img, {analyze_soil(img)})

Main ==
    /\ UNCHANGED notImageVars
    /\ \E img \in Images : Conditioned("main", img, main(img))

ApplyBrightnessCalibration ==
    /\ UNCHANGED notImageVars
    /\ \E img \in Images :
           Conditioned("apply_brightness_calibration", img,
                       apply_brightness_calibration(img))

EliminateGloss ==
    /\ UNCHANGED notImageVars
    /\ \E img \in Images :
           Conditioned("eliminate_gloss", img, {eliminate_gloss(img)})

\* no estimator has been called
GrayIdle ==
    /\ consts = [Gs |-> 0, G0 |-> 0, theta_s |-> 0, default |-> FALSE]
    /\ fn = "none"
    /\ G = 0
    /\ numpyArg = FALSE
    /\ outcome = NoOutcome

\* no sensor has been constructed
SensorIdle ==
    /\ constructed = FALSE
    /\ calibration_points = <<>>
    /\ slope = NaN
    /\ intercept = NaN
    /\ spi = "none"
    /\ given = [none |-> TRUE, pts |-> <<>>]
    /\ op = "none"
    /\ arg = NaN
    /\ ret = NaN
    /\ err = "none"

\* no conditioning function has been called
ImageIdle ==
    /\ image = <<>>
    /\ imgFn = "none"
    /\ imgOut = ImgOut("none", "none", <<>>, <<>>, NoAvg, NoOutcome)

\* get_center_roi has not been called
RoiIdle ==
    /\ roiIn = [w |-> 0, called |-> FALSE, h |-> 0, roi_h |-> 0, roi_w |-> 0]
    /\ roiOut = [start_y |-> 0, end_y |-> 0, start_x |-> 0, end_x |-> 0,
                 rows |-> 0, cols |-> 0]

\* no interpolating transform has been constructed
InterpIdle ==
    /\ points = <<>>
    /\ rawValue = NaN
    /\ value = NaN
    /\ interpErr = "none"

\* no read-out function has been called
AdcIdle ==
    /\ adcFn = "none"
    /\ adcIn = <<0, 0, 0>>
    /\ adcOut = 0

\* "0.00", the initial value of the characteristic (line 145)
InitialValue == <<48, 46, 48, 48>>

\* run() has not started
PeriphIdle ==
    /\ runPc = "init"
    /\ moisture_sensor = "None"
    /\ charValue = InitialValue
    /\ trigger = FALSE
    /\ update_task = "none"
    /\ pOp = "none"
    /\ pArg = <<>>
    /\ pBefore = <<>>
    /\ pRet = <<>>
    /\ pExc = "none"
    /\ pRead = "none"
    /\ pSpi = "none"

\* main.py has been imported: the deque is empty
MainIdle ==
    /\ moisture_data = <<>>
    /\ acquired = <<>>
    /\ mainOp = "none"
    /\ snapshot = <<>>

\* retry_connect has not been called
RetryIdle ==
    /\ rcMax = 0
    /\ rcAttempt = 0
    /\ rcPc = "idle"
    /\ rcResult = "pending"
    /\ rcLast = "none"
    /\ rcExc = "none"

\* no session of scan_and_connect is open
SessionIdle ==
    /\ linkUp = FALSE
    /\ cDisc = 0
    /\ cI = 0
    /\ cWrites = 0
    /\ cExit = "none"

\* scan_and_connect is not running
CentralIdle == cPc = "idle" /\ SessionIdle /\ RetryIdle

FirmwareIdle == AdcIdle /\ PeriphIdle /\ MainIdle /\ CentralIdle

Init == SensorIdle /\ GrayIdle /\ ImageIdle /\ RoiIdle /\ InterpIdle /\ FirmwareIdle

Next ==
    \/ Construct
    \/ \E raw \in RawArgs : Calibrate(raw)
    \/ \E adc \in SpiResponses : ReadRaw(adc)
    \/ \E adc \in SpiResponses : ReadCalibrated(adc)
    \/ \E adc \in SpiResponses : ReadPercent(adc)
    \/ \E adc \in SpiResponses : ReadCalibratedPercent(adc)
    \/ Close

Spec == Init /\ [][Next]_vars

GrayInit ==
    /\ SensorIdle
    /\ ImageIdle
    /\ RoiIdle
    /\ InterpIdle
    /\ FirmwareIdle
    /\ consts \in ConstSets
    /\ fn = "none"
    /\ G = 0
    /\ numpyArg = FALSE
    /\ outcome = NoOutcome

GrayNext ==
    \/ \E g \in GrayArgs(ConstsOf("estimate_swc")), np \in BOOLEAN : EstimateSwc(g, np)
    \/ \E g \in GrayArgs(ConstsOf("estimate_soil_moisture")), np \in BOOLEAN :
           EstimateSoilMoisture(g, np)

GraySpec == GrayInit /\ [][GrayNext]_vars

ImageInit == Init

ImageNext ==
    \/ Normalize
    \/ PreprocessImage
    \/ AnalyzeSoil
    \/ Main
    \/ ApplyBrightnessCalibration
    \/ EliminateGloss

ImageSpec == ImageInit /\ [][ImageNext]_vars

(***************************************************************************)
(* get_center_roi, model/classification_utils.py (the copies in             *)
(* lightgbm_classifier.py, knn_classifier.py and knn_regressor.py compute   *)
(* the same bounds)                                                         *)
(***************************************************************************)
\* the number of elements of a[start:stop] for an axis of length n, as
\* Python slices: a negative index counts from the end, both are clamped
slice_len(n, start, stop) ==
    LET lo == IF start < 0 THEN Max(0, start + n) ELSE Min(start, n)
        hi == IF stop < 0 THEN Max(0, stop + n) ELSE Min(stop, n)
    IN  Max(0, hi - lo)

\* start = center - (roi // 2) without the clamp at 0
roi_start_unclamped(n, roi_n) == (n \div 2) - (roi_n \div 2)

\* lines 56-65: start = max(0, n // 2 - roi_n // 2)
roi_start(n, roi_n) == Max(0, (n \div 2) - (roi_n \div 2))

\* lines 66-67: end = min(n, start + roi_n)
roi_end(n, roi_n) == Min(n, roi_start(n, roi_n) + roi_n)

\* the bounds of the returned slice and its shape
get_center_roi(h, w, roi_h, roi_w) ==
    [start_y |-> roi_start(h, roi_h), end_y |-> roi_end(h, roi_h),
     start_x |-> roi_start(w, roi_w), end_x |-> roi_end(w, roi_w),
     rows |-> slice_len(h, roi_start(h, roi_h), roi_end(h, roi_h)),
     cols |-> slice_len(w, roi_start(w, roi_w), roi_end(w, roi_w))]

GetCenterRoi(h, w, roi_h, roi_w) ==
    /\ roiIn' = [w |-> w, called |-> TRUE, h |-> h, roi_h |-> roi_h, roi_w |-> roi_w]
    /\ roiOut' = get_center_roi(h, w, roi_h, roi_w)
    /\ UNCHANGED notRoiVars

RoiInit == Init

RoiNext ==
    \E h, w \in 0..MaxSide : \E roi_h, roi_w \in 0..MaxRoi :
        GetCenterRoi(h, w, roi_h, roi_w)

RoiSpec == RoiInit /\ [][RoiNext]_vars

(***************************************************************************)
(* The piecewise-linear interpolation strategy of spec.md 4.2.  The        *)
(* repository's only calibration transform is the regression line of       *)
(* CalibratedMoistureSensor; this strategy is modelled from the contract:   *)
(* points sorted by raw value at construction, duplicate raw values and     *)
(* fewer than two points rejected, clamping outside the end points, and     *)
(* y0 + (y1 - y0) * (raw - x0) / (x1 - x0) inside the bracketing interval.  *)
(***************************************************************************)
\* a / b for finite a and a finite b # 0
ExtDiv(a, b) == Rat(a.n * b.d, a.d * b.n)

\* the raw and reference values the model builds point lists from; 15/2 is
\* the 7.5 of the scenario in spec.md section 8
InterpRaws == {Num(220), Num(365), Num(680)}

InterpRefs == {Num(3), Rat(15, 2), Num(15)}

InterpPointLists ==
    UNION {[1..n -> InterpRaws \X InterpRefs] : n \in 1..MaxPoints}

\* the raw values queried: below, at and between the knots; 985/2 is 492.5
\* and 1045/2 is 522.5, the midpoint of 365 and 680
InterpQueries ==
    {Num(0), Num(220), Num(365), Rat(985, 2), Rat(1045, 2), Num(680), Num(1023)}

\* p inserted into the list sorted ascending by raw value
RECURSIVE InsertByRaw(_, _)
InsertByRaw(p, sorted) ==
    IF sorted = <<>> THEN <<p>>
    ELSE IF ExtGt(Head(sorted)[1], p[1]) THEN <<p>> \o sorted
    ELSE <<Head(sorted)>> \o InsertByRaw(p, Tail(sorted))

\* "Points are sorted ascending by rawValue at construction"
RECURSIVE SortByRaw(_)
SortByRaw(pts) ==
    IF pts = <<>> THEN <<>>
    ELSE InsertByRaw(pts[Len(pts)], SortByRaw(SubSeq(pts, 1, Len(pts) - 1)))

\* the value inside the bracketing interval, without the y0 term
bracket_value_no_offset(p0, p1, raw) ==
    ExtDiv(ExtMul(ExtSub(p1[2], p0[2]), ExtSub(raw, p0[1])), ExtSub(p1[1], p0[1]))

\* value = y0 + (y1 - y0) * (raw - x0) / (x1 - x0)
bracket_value(p0, p1, raw) ==
    ExtAdd(p0[2],
           ExtDiv(ExtMul(ExtSub(p1[2], p0[2]), ExtSub(raw, p0[1])),
                  ExtSub(p1[1], p0[1])))

\* the transform of spec.md 4.2 on sorted points with distinct raw values
interpolate(pts, raw) ==
    IF ExtGe(pts[1][1], raw) THEN pts[1][2]
    ELSE IF ExtGe(raw, pts[Len(pts)][1]) THEN pts[Len(pts)][2]
    ELSE LET i == CHOOSE j \in 1..(Len(pts) - 1) :
                      ExtGe(raw, pts[j][1]) /\ ExtGe(pts[j + 1][1], raw)
         IN  bracket_value(pts[i], pts[i + 1], raw)

\* construction: fewer than two points or a duplicate raw value is an
\* InvalidCalibrationError, otherwise the sorted points are kept
InterpConstruct(pts) ==
    /\ rawValue' = NaN
    /\ value' = NaN
    /\ IF Len(pts) < 2 \/ \E i, j \in 1..Len(pts) : i # j /\ pts[i][1] = pts[j][1]
       THEN points' = <<>> /\ interpErr' = "InvalidCalibrationError"
       ELSE points' = SortByRaw(pts) /\ interpErr' = "none"
    /\ UNCHANGED notInterpVars

\* one query of the constructed transform
Interpolate(raw) ==
    /\ points # <<>>
    /\ rawValue' = raw
    /\ value' = interpolate(points, raw)
    /\ UNCHANGED <<points, interpErr>>
    /\ UNCHANGED notInterpVars

InterpInit == Init

InterpNext ==
    \/ \E pts \in InterpPointLists : InterpConstruct(pts)
    \/ \E raw \in InterpQueries : Interpolate(raw)

InterpSpec == InterpInit /\ [][InterpNext]_vars

(***************************************************************************)
(* The MCP3008 read-out: read_raw of firmware/calibrated_sensor.py and     *)
(* ReadChannel of firmware/record_analog.py assemble the 10-bit code from  *)
(* the 3-byte response of spi.xfer2.                                       *)
(***************************************************************************)
\* spi.xfer2 returns a list of bytes: each element lies in 0..MaxByte
MaxByte == 255

\* the responses tried: the first byte, which neither function reads, at its
\* two extremes, and every value of the second and of the third byte
AdcFirstBytes == {0, MaxByte}

\* record_analog.py line 16: data = ((adc[1]&3) << 8) + adc[2]
ReadChannel_code(adc) == ((adc[2] % 4) * 256) + adc[3]

\* read_raw(): the code assembled from the response of the transfer
AdcReadRaw ==
    /\ adcFn' = "read_raw"
    /\ adcOut' = adc_code(adcIn)
    /\ UNCHANGED adcIn
    /\ UNCHANGED notAdcVars

\* ReadChannel(channel): the code assembled from the response of the transfer
ReadChannel ==
    /\ adcFn' = "ReadChannel"
    /\ adcOut' = ReadChannel_code(adcIn)
    /\ UNCHANGED adcIn
    /\ UNCHANGED notAdcVars

\* the response that the chip sends is drawn first, then the functions run
AdcInit ==
    /\ SensorIdle /\ GrayIdle /\ ImageIdle /\ RoiIdle /\ InterpIdle
    /\ PeriphIdle /\ MainIdle /\ CentralIdle
    /\ adcFn = "none"
    /\ adcIn \in AdcFirstBytes \X (0..MaxByte) \X (0..MaxByte)
    /\ adcOut = 0

AdcNext ==
    \/ AdcReadRaw
    \/ ReadChannel

AdcSpec == AdcInit /\ [][AdcNext]_vars

(***************************************************************************)
(* The BLE peripheral, firmware/run_peripheral.py.  run() builds the       *)
(* sensor and the server, waits for the trigger, closes the sensor and     *)
(* stops the server; while the server runs, bless calls read_request and   *)
(* write_request for the requests of the clients.  A byte string is a      *)
(* sequence of byte values, a text its ASCII codes.                        *)
(***************************************************************************)
\* the line that CalibratedMoistureSensor(channel=0) fits (line 115)
DefaultFit == CHOOSE f \in polyfit(DefaultPoints) : TRUE

\* moisture_sensor.read_calibrated() of that instance on a response
sensor_read_calibrated(adc) ==
    PyMax(Num(0), ExtAdd(ExtMul(DefaultFit.slope, Num(adc_code(adc))),
                         DefaultFit.intercept))

\* the decimal digits of a natural number, as ASCII codes
RECURSIVE Digits(_)
Digits(i) == IF i < 10 THEN <<48 + i>> ELSE Append(Digits(i \div 10), 48 + (i % 10))

\* f"{x:.2f}".encode(): the value rounded half-even to hundredths, written
\* with a sign, the integer digits, a point and two decimals; "nan", "inf"
\* and "-inf" for the specials
Format2f(x) ==
    IF x.k = "nan" THEN <<110, 97, 110>>
    ELSE IF x.k = "inf"
         THEN (IF x.n < 0 THEN <<45>> ELSE <<>>) \o <<105, 110, 102>>
         ELSE LET cents == RoundHalfEven(Abs(x.n) * 100, x.d)
              IN  (IF x.n < 0 THEN <<45>> ELSE <<>>)
                      \o Digits(cents \div 100)
                      \o <<46, 48 + ((cents % 100) \div 10), 48 + (cents % 10)>>

\* the SPI responses offered to the peripheral's sensor
PeripheralResponses == SpiResponses \cup {<<1, 1, 44>>}

\* the values that clients write: the shutdown command b"\x0f" and others
ShutdownCommand == <<15>>

WrittenValues == {ShutdownCommand, <<15, 15>>, <<>>, <<0>>, <<49, 46, 53>>}

\* lines 53-54: how the sensor read of a read request goes.  No read is
\* made without a sensor; read_calibrated raises when the SPI device is
\* closed or the transfer fails.
SensorRead(spiOk) ==
    IF moisture_sensor = "None" THEN "skipped"
    ELSE IF moisture_sensor = "closed" \/ ~spiOk THEN "raised"
    ELSE "ok"

\* read_request of a variant that returns the stored value and reads after
read_request_value_stale(adc, spiOk) == charValue

\* lines 53-61: the value of the characteristic after read_request, which
\* is also what it returns
read_request_value(adc, spiOk) ==
    IF SensorRead(spiOk) = "ok" THEN Format2f(sensor_read_calibrated(adc))
    ELSE charValue

\* read_request without the try/except of lines 51 and 58
read_request_exc_unguarded(spiOk) ==
    IF SensorRead(spiOk) = "raised" THEN "OSError" ELSE "none"

\* lines 51-59: what read_request raises.  The sensor read is the only
\* statement that raises and `except Exception` logs and drops it.
read_request_exc(spiOk) == "none"

\* run() up to server.start(): the sensor is built (or None when __init__
\* raises), the trigger cleared, the characteristic created with "0.00"
RunStart ==
    /\ runPc = "init"
    /\ \E sensorOk \in BOOLEAN :
           moisture_sensor' = IF sensorOk THEN "open" ELSE "None"
    /\ trigger' = FALSE
    /\ charValue' = InitialValue
    /\ runPc' = "waiting"
    /\ UNCHANGED <<update_task, pOp, pArg, pBefore, pRet, pExc, pRead, pSpi>>
    /\ UNCHANGED notPeriphVars

\* the server serves requests from server.start() until server.stop() is done
ServerRunning == runPc \in {"waiting", "stopping"}

\* read_request(characteristic) for the moisture characteristic
ReadRequest ==
    /\ ServerRunning
    /\ UNCHANGED notPeriphVars
    /\ \E adc \in PeripheralResponses, spiOk \in BOOLEAN :
           /\ pOp' = "read"
           /\ pArg' = adc
           /\ pBefore' = charValue
           /\ pRead' = SensorRead(spiOk)
           /\ pSpi' = IF moisture_sensor = "None" THEN "none" ELSE moisture_sensor
           /\ pExc' = read_request_exc(spiOk)
           /\ IF read_request_exc(spiOk) = "none"
              THEN /\ charValue' = read_request_value(adc, spiOk)
                   /\ pRet' = read_request_value(adc, spiOk)
              ELSE /\ charValue' = charValue
                   /\ pRet' = <<>>
    /\ UNCHANGED <<runPc, moisture_sensor, trigger, update_task>>

\* write_request of a variant that takes any value starting with 0x0F
write_request_sets_prefix(v) == v # <<>> /\ v[1] = 15

\* lines 73-75: the written value sets the trigger iff it is b"\x0f"
write_request_sets(v) == v = ShutdownCommand

\* write_request(characteristic, value)
WriteRequest ==
    /\ ServerRunning
    /\ UNCHANGED notPeriphVars
    /\ \E v \in WrittenValues :
           /\ pOp' = "write"
           /\ pArg' = v
           /\ pBefore' = charValue
           /\ charValue' = v
           /\ trigger' = (trigger \/ write_request_sets(v))
    /\ pRet' = <<>>
    /\ pExc' = "none"
    /\ pRead' = "none"
    /\ pSpi' = "none"
    /\ UNCHANGED <<runPc, moisture_sensor, update_task>>

\* lines 157-176: the wait ends once the trigger is set (at once with the
\* asyncio event, at the next one-second poll with the threading event) and
\* the finally block closes the sensor if there is one
RunWake ==
    /\ runPc = "waiting"
    /\ trigger
    /\ moisture_sensor' = IF moisture_sensor = "None" THEN "None" ELSE "closed"
    /\ runPc' = "stopping"
    /\ UNCHANGED <<charValue, trigger, update_task,
                   pOp, pArg, pBefore, pRet, pExc, pRead, pSpi>>
    /\ UNCHANGED notPeriphVars

\* line 178: await server.stop() completes
ServerStop ==
    /\ runPc = "stopping"
    /\ runPc' = "stopped"
    /\ UNCHANGED <<moisture_sensor, charValue, trigger, update_task,
                   pOp, pArg, pBefore, pRet, pExc, pRead, pSpi>>
    /\ UNCHANGED notPeriphVars

PeripheralInit == Init

PeripheralNext ==
    \/ RunStart
    \/ ReadRequest
    \/ WriteRequest
    \/ RunWake
    \/ ServerStop

PeripheralSpec == PeripheralInit /\ [][PeripheralNext]_vars

\* the event loop resumes run() once the trigger is set, and the awaited
\* server.stop() completes: the two steps of run() are weakly fair.  The
\* requests of the clients are not.
PeripheralFairSpec ==
    PeripheralSpec /\ WF_vars(RunWake) /\ WF_vars(ServerStop)

(***************************************************************************)
(* The GPIO peripheral, firmware/main.py: a thread appends a reading to    *)
(* the deque moisture_data every 10 seconds, and read_request returns the  *)
(* deque as JSON text.  list(deque) and deque.append are atomic under the  *)
(* interpreter lock, so each is one step.                                  *)
(***************************************************************************)
\* line 35: deque(maxlen=24)
maxlen == 24

\* line 47: time.sleep(10) between two readings
SampleInterval == 10

\* deque.append of a variant that keeps the oldest readings when full
deque_append_keep_oldest(dq, x) ==
    IF Len(dq) = maxlen THEN dq ELSE Append(dq, x)

\* deque.append on a deque with maxlen: when full, the leftmost item is
\* discarded
deque_append(dq, x) ==
    IF Len(dq) = maxlen THEN Append(Tail(dq), x) ELSE Append(dq, x)

\* the number of readings of 1 among the readings
RECURSIVE WetCount(_)
WetCount(rs) ==
    IF rs = <<>> THEN 0 ELSE (IF Head(rs)[1] = 1 THEN 1 ELSE 0) + WetCount(Tail(rs))

\* lines 37-47: read_moisture_level() and the append; the pin reads 0 or 1,
\* the clock has advanced by the sleep since the last reading
Sample ==
    /\ Len(acquired) < MaxSamples
    /\ \E level \in {0, 1} :
           /\ level = 1 => WetCount(acquired) < MaxWet
           /\ moisture_data' =
                  deque_append(moisture_data, <<level, Len(acquired) * SampleInterval>>)
           /\ acquired' = Append(acquired, <<level, Len(acquired) * SampleInterval>>)
    /\ mainOp' = "sample"
    /\ snapshot' = <<>>
    /\ UNCHANGED notMainVars

\* json.dumps of one reading: {"moisture": 0, "timestamp": 10.0}
json_reading(r) ==
    <<123, 34, 109, 111, 105, 115, 116, 117, 114, 101, 34, 58, 32>>
        \o Digits(r[1])
        \o <<44, 32, 34, 116, 105, 109, 101, 115, 116, 97, 109, 112, 34, 58, 32>>
        \o Digits(r[2]) \o <<46, 48, 125>>

\* the readings joined with ", "
RECURSIVE json_items(_)
json_items(rs) ==
    IF rs = <<>> THEN <<>>
    ELSE IF Len(rs) = 1 THEN json_reading(rs[1])
    ELSE json_reading(rs[1]) \o <<44, 32>> \o json_items(Tail(rs))

\* line 53: json.dumps(data).encode('utf-8')
json_dumps(rs) == <<91>> \o json_items(rs) \o <<93>>

\* lines 49-55: read_request returns the JSON text of list(moisture_data)
MainReadRequest ==
    /\ snapshot' = json_dumps(moisture_data)
    /\ mainOp' = "read"
    /\ UNCHANGED <<moisture_data, acquired>>
    /\ UNCHANGED notMainVars

MainInit == Init

MainNext ==
    \/ Sample
    \/ MainReadRequest

MainSpec == MainInit /\ [][MainNext]_vars

(***************************************************************************)
(* The BLE central, firmware/run_central.py: retry_connect and the scan    *)
(* loop of scan_and_connect.  Each await is a step.  The link of the       *)
(* connected client can drop at any time; client.disconnect() takes the    *)
(* link down.                                                              *)
(***************************************************************************)
\* line 27: max_attempts=3
DefaultMaxAttempts == 3

\* line 91: for retry in range(3)
DiscoveryTries == 3

\* line 195: for i in range(10)
MessagesPerConnection == 10

\* what one connection attempt does: connect() returns and is_connected is
\* True, connect() returns and it is False, connect() raises a BleakError,
\* or it raises another Exception (a timeout)
AttemptOutcomes == {"connected", "not_connected", "BleakError", "Exception"}

\* retry_connect of a variant that catches BleakError only
retry_catches_bleak_only(e) == e = "BleakError"

\* lines 38-41: the except clauses catch BleakError and every other Exception
retry_catches(e) == e \in {"BleakError", "Exception"}

\* lines 29-37: one pass of the loop up to the return or the sleep
RetryAttempt ==
    /\ rcPc = "attempt"
    /\ rcAttempt < rcMax
    /\ rcAttempt' = rcAttempt + 1
    /\ \E o \in AttemptOutcomes :
           /\ rcLast' = o
           /\ IF o = "connected"
              THEN /\ rcResult' = "client"
                   /\ rcPc' = "done"
                   /\ linkUp' = TRUE
                   /\ rcExc' = "none"
              ELSE IF o = "not_connected" \/ retry_catches(o)
                   THEN /\ rcPc' = "sleep"
                        /\ UNCHANGED <<rcResult, linkUp, rcExc>>
                   ELSE /\ rcResult' = "raised"
                        /\ rcPc' = "done"
                        /\ rcExc' = o
                        /\ UNCHANGED linkUp
    /\ UNCHANGED <<cPc, cDisc, cI, cWrites, cExit, rcMax>>
    /\ UNCHANGED notCentralVars

\* line 44: await asyncio.sleep(delay) completes
RetrySleep ==
    /\ rcPc = "sleep"
    /\ rcPc' = "attempt"
    /\ UNCHANGED <<cPc, linkUp, cDisc, cI, cWrites, cExit,
                   rcMax, rcAttempt, rcResult, rcLast, rcExc>>
    /\ UNCHANGED notCentralVars

\* line 46: the loop is exhausted, return None
RetryExhausted ==
    /\ rcPc = "attempt"
    /\ rcAttempt >= rcMax
    /\ rcResult' = "None"
    /\ rcPc' = "done"
    /\ UNCHANGED <<cPc, linkUp, cDisc, cI, cWrites, cExit,
                   rcMax, rcAttempt, rcLast, rcExc>>
    /\ UNCHANGED notCentralVars

\* retry_connect(address, max_attempts) has just been called
RetryInit ==
    /\ SensorIdle /\ GrayIdle /\ ImageIdle /\ RoiIdle /\ InterpIdle
    /\ AdcIdle /\ PeriphIdle /\ MainIdle
    /\ cPc = "idle"
    /\ SessionIdle
    /\ rcMax \in -1..MaxAttempts
    /\ rcAttempt = 0
    /\ rcPc = "attempt"
    /\ rcResult = "pending"
    /\ rcLast = "none"
    /\ rcExc = "none"

RetryNext ==
    \/ RetryAttempt
    \/ RetrySleep
    \/ RetryExhausted

RetrySpec == RetryInit /\ [][RetryNext]_vars

\* connect() is bounded by timeout=15.0 and the sleep by delay: every step
\* of retry_connect that can be taken is taken
RetryFairSpec ==
    RetrySpec /\ WF_vars(RetryAttempt) /\ WF_vars(RetrySleep) /\ WF_vars(RetryExhausted)

\* lines 57-81 and 230-243: a scan cycle.  The scan raises (line 239) or
\* does not find the peripheral (line 231), and the next cycle starts after
\* the sleep; or it finds it and retry_connect is called.
Scan ==
    /\ cPc = "scan"
    /\ \E found \in BOOLEAN :
           IF found
           THEN /\ cPc' = "connect"
                /\ rcMax' = DefaultMaxAttempts
                /\ rcAttempt' = 0
                /\ rcPc' = "attempt"
                /\ rcResult' = "pending"
                /\ rcLast' = "none"
                /\ rcExc' = "none"
                /\ cExit' = "none"
                /\ cDisc' = 0
                /\ cI' = 0
                /\ cWrites' = 0
           ELSE UNCHANGED <<cPc, cDisc, cI, cWrites, cExit,
                            rcMax, rcAttempt, rcPc, rcResult, rcLast, rcExc>>
    /\ UNCHANGED linkUp
    /\ UNCHANGED notCentralVars

\* lines 81-83 and 227-234: retry_connect has returned; a session opens if
\* it returned a client that is still connected, else the next cycle starts
\* (an exception out of retry_connect would reach line 239)
AfterConnect ==
    /\ cPc = "connect"
    /\ rcPc = "done"
    /\ rcPc' = "idle"
    /\ IF rcResult = "client" /\ linkUp
       THEN cPc' = "discover" /\ cExit' = "none"
       ELSE cPc' = "scan" /\ cExit' = "not_connected"
    /\ UNCHANGED <<linkUp, cDisc, cI, cWrites, rcMax, rcAttempt, rcResult, rcLast, rcExc>>
    /\ UNCHANGED notCentralVars

\* what get_services and the inspection of lines 105-165 find: a falsy
\* services object, an empty list, no target service, no target
\* characteristic, or the characteristic with or without the read property
ServiceOutcomes ==
    {"no_services_object", "no_services", "no_service", "no_char",
     "char_read", "char_noread"}

\* lines 91-165: one get_services attempt.  It raises (after the third
\* failure services is None), or returns and the services are inspected.
Discover ==
    /\ cPc = "discover"
    /\ \E raises \in BOOLEAN, found \in ServiceOutcomes :
           IF raises
           THEN IF cDisc + 1 < DiscoveryTries
                THEN /\ cDisc' = cDisc + 1
                     /\ UNCHANGED <<cPc, cExit>>
                ELSE /\ cDisc' = cDisc + 1
                     /\ cPc' = "bail"
                     /\ cExit' = "discovery_failed"
           ELSE /\ UNCHANGED cDisc
                /\ IF found = "char_read" THEN cPc' = "read" /\ UNCHANGED cExit
                   ELSE IF found = "char_noread" THEN cPc' = "comm" /\ UNCHANGED cExit
                   ELSE cPc' = "bail" /\ cExit' = found
    /\ UNCHANGED <<linkUp, cI, cWrites, rcMax, rcAttempt, rcPc, rcResult, rcLast, rcExc>>
    /\ UNCHANGED notCentralVars

\* a variant of lines 107-109 that continues without disconnecting
Bail_no_disconnect ==
    /\ cPc = "bail"
    /\ cPc' = "scan"
    /\ UNCHANGED <<linkUp, cDisc, cI, cWrites, cExit,
                   rcMax, rcAttempt, rcPc, rcResult, rcLast, rcExc>>
    /\ UNCHANGED notCentralVars

\* lines 107-109, 117-119, 148-150, 163-165: disconnect, sleep, continue
Bail ==
    /\ cPc = "bail"
    /\ linkUp' = FALSE
    /\ cPc' = "scan"
    /\ UNCHANGED <<cDisc, cI, cWrites, cExit,
                   rcMax, rcAttempt, rcPc, rcResult, rcLast, rcExc>>
    /\ UNCHANGED notCentralVars

\* lines 182-191: the initial read; its exception is caught
InitialRead ==
    /\ cPc = "read"
    /\ cPc' = "comm"
    /\ UNCHANGED <<linkUp, cDisc, cI, cWrites, cExit,
                   rcMax, rcAttempt, rcPc, rcResult, rcLast, rcExc>>
    /\ UNCHANGED notCentralVars

\* a variant of lines 211-213 that goes on with the next message
CommWriteError_continue ==
    /\ cPc = "comm"
    /\ cI < MessagesPerConnection
    /\ linkUp
    /\ cWrites' = cWrites + 1
    /\ cI' = cI + 1
    /\ cExit' = "write_error"
    /\ UNCHANGED <<cPc, linkUp, cDisc,
                   rcMax, rcAttempt, rcPc, rcResult, rcLast, rcExc>>
    /\ UNCHANGED notCentralVars

\* lines 197-207: connected, the write succeeds, sleep, next i
CommWrite ==
    /\ cPc = "comm"
    /\ cI < MessagesPerConnection
    /\ linkUp
    /\ cWrites' = cWrites + 1
    /\ cI' = cI + 1
    /\ UNCHANGED <<cPc, linkUp, cDisc, cExit,
                   rcMax, rcAttempt, rcPc, rcResult, rcLast, rcExc>>
    /\ UNCHANGED notCentralVars

\* lines 203 and 211-213: the write raises, break
CommWriteError ==
    /\ cPc = "comm"
    /\ cI < MessagesPerConnection
    /\ linkUp
    /\ cWrites' = cWrites + 1
    /\ cPc' = "finish"
    /\ cExit' = "write_error"
    /\ UNCHANGED <<linkUp, cDisc, cI, rcMax, rcAttempt, rcPc, rcResult, rcLast, rcExc>>
    /\ UNCHANGED notCentralVars

\* lines 208-210: not connected any more, break
CommLost ==
    /\ cPc = "comm"
    /\ cI < MessagesPerConnection
    /\ ~linkUp
    /\ cPc' = "finish"
    /\ cExit' = "lost"
    /\ UNCHANGED <<linkUp, cDisc, cI, cWrites,
                   rcMax, rcAttempt, rcPc, rcResult, rcLast, rcExc>>
    /\ UNCHANGED notCentralVars

\* line 195: the range is exhausted
CommDone ==
    /\ cPc = "comm"
    /\ cI >= MessagesPerConnection
    /\ cPc' = "finish"
    /\ cExit' = "finished"
    /\ UNCHANGED <<linkUp, cDisc, cI, cWrites,
                   rcMax, rcAttempt, rcPc, rcResult, rcLast, rcExc>>
    /\ UNCHANGED notCentralVars

\* lines 216-218 and 234: the clean disconnect, then the next cycle
Finish ==
    /\ cPc = "finish"
    /\ linkUp' = FALSE
    /\ cPc' = "scan"
    /\ UNCHANGED <<cDisc, cI, cWrites, cExit,
                   rcMax, rcAttempt, rcPc, rcResult, rcLast, rcExc>>
    /\ UNCHANGED notCentralVars

\* lines 220-225 and 234: an exception escapes the interaction; the handler
\* disconnects the client if it is still connected, then the next cycle
InteractionError ==
    /\ cPc \in {"discover", "read", "comm"}
    /\ linkUp' = FALSE
    /\ cPc' = "scan"
    /\ cExit' = "exception"
    /\ UNCHANGED <<cDisc, cI, cWrites, rcMax, rcAttempt, rcPc, rcResult, rcLast, rcExc>>
    /\ UNCHANGED notCentralVars

\* the peripheral goes away or out of range: the link of this cycle's
\* client drops
LinkLost ==
    /\ cPc \in {"connect", "discover", "bail", "read", "comm", "finish"}
    /\ linkUp
    /\ linkUp' = FALSE
    /\ UNCHANGED <<cPc, cDisc, cI, cWrites, cExit,
                   rcMax, rcAttempt, rcPc, rcResult, rcLast, rcExc>>
    /\ UNCHANGED notCentralVars

\* scan_and_connect has been called
CentralInit ==
    /\ SensorIdle /\ GrayIdle /\ ImageIdle /\ RoiIdle /\ InterpIdle
    /\ AdcIdle /\ PeriphIdle /\ MainIdle
    /\ cPc = "scan"
    /\ SessionIdle
    /\ RetryIdle

CentralNext ==
    \/ Scan
    \/ RetryAttempt
    \/ RetrySleep
    \/ RetryExhausted
    \/ AfterConnect
    \/ Discover
    \/ Bail
    \/ InitialRead
    \/ CommWrite
    \/ CommWriteError
    \/ CommLost
    \/ CommDone
    \/ Finish
    \/ InteractionError
    \/ LinkLost

CentralSpec == CentralInit /\ [][CentralNext]_vars

(***************************************************************************)
(* Properties                                                              *)
(***************************************************************************)
\* the constants of the estimator that ran last
LastConsts == ConstsOf(fn)

Below == G < LastConsts.Gs * GScale

Above == G > LastConsts.G0 * GScale

\* C1: calibrate returns a value >= 0 for every raw value, in range, far out
\* of range or a binary64 special, and for every fitted slope and intercept
\* (nan coefficients included); read_calibrated returns what calibrate does.
C1_CalibrateNonNegative ==
    (op \in {"calibrate", "read_calibrated"} /\ err = "none") => ExtGe(ret, Num(0))

\* the fitted line is negative at a raw value far out of range and
\* calibrate returned 0
C1_Witness ==
    /\ op = "calibrate"
    /\ arg \in {Num(FarRaw), Num(-FarRaw)}
    /\ ExtGt(Num(0), water_content(arg))
    /\ ret = Num(0)

\* C2: with Gs < G0, estimate_swc returns exactly 0 at G = G0 and exactly
\* theta_s at G = Gs.
C2_BoundaryExact ==
    (fn = "estimate_swc" /\ LastConsts.Gs < LastConsts.G0) =>
        /\ G = LastConsts.G0 * GScale => outcome = Return(0)
        /\ G = LastConsts.Gs * GScale => outcome = Return(LastConsts.theta_s * Scale)

\* estimate_swc ran at G = GL_S with the default constants and returned THETA_S
C2_Witness ==
    /\ fn = "estimate_swc"
    /\ consts.default
    /\ G = GL_S * GScale
    /\ outcome = Return(THETA_S * Scale)

\* C3: under the strict policy (estimate_soil_moisture, constants with
\* GL_0 # GL_s) every gray level below GL_s or above GL_0 raises the
\* out-of-range ValueError and returns nothing, and every gray level with
\* GL_s <= G <= GL_0 returns a number and raises nothing.
C3_StrictPolicy ==
    (fn = "estimate_soil_moisture" /\ LastConsts.G0 # LastConsts.Gs) =>
        /\ (Below \/ Above) => outcome = Raise("ValueError")
        /\ InRange(G, LastConsts) =>
               outcome.kind = "return" /\ ~outcome.nan /\ outcome.exc = "none"

\* with the default constants, the gray level one step below GL_s raised
\* ValueError
C3_Witness ==
    /\ fn = "estimate_soil_moisture"
    /\ consts.default
    /\ G = B_GL_s * GScale - 1
    /\ outcome = Raise("ValueError")

\* C4: under the lenient policy (estimate_swc, Gs < G0) an out-of-range gray
\* level returns the percentage of the nearest endpoint, theta_s below Gs
\* and 0 above G0, and the returned value differs from every value an
\* in-range gray level returns (it is told apart as extrapolated).
C4_LenientClamp ==
    (fn = "estimate_swc" /\ LastConsts.Gs < LastConsts.G0 /\ (Below \/ Above)) =>
        /\ outcome.kind = "return"
        /\ Below => outcome.value = LastConsts.theta_s * Scale
        /\ Above => outcome.value = 0
        /\ \A g \in GrayArgs(LastConsts) :
               InRange(g, LastConsts) =>
                   estimate_swc(g, LastConsts, numpyArg).value # outcome.value

\* C5: with Gs < G0 and Gs <= G <= G0 both estimators return a number that
\* is >= 0 and <= the saturation constant (theta_s, u_s).
C5_EstimateBounded ==
    (fn # "none" /\ LastConsts.Gs < LastConsts.G0 /\ InRange(G, LastConsts)) =>
        /\ outcome.kind = "return"
        /\ ~outcome.nan
        /\ 0 <= outcome.value
        /\ outcome.value <= LastConsts.theta_s * Scale

\* an estimate strictly between 0 and the saturation constant, strictly
\* inside the range
C5_Witness ==
    /\ fn = "estimate_soil_moisture"
    /\ LastConsts.Gs * GScale < G
    /\ G < LastConsts.G0 * GScale
    /\ outcome.kind = "return"
    /\ 0 < outcome.value
    /\ outcome.value < LastConsts.theta_s * Scale

\* what each estimator does with a gray level it finds out of range:
\* estimate_soil_moisture raises ValueError, estimate_swc prints and returns 0
OutOfRangeOutcome ==
    \/ outcome.kind = "raise" /\ outcome.exc = "ValueError"
    \/ outcome.kind = "return" /\ outcome.printed # "none"

\* C6: with degenerate constants (G0 = Gs, or G0 < Gs, for which no ratio
\* lies in [0,1]) the estimators end in their out-of-range outcome: they
\* return no nan and no number as a success, and raise no arithmetic fault.
C6_DegenerateConstants ==
    (fn # "none" /\ LastConsts.G0 <= LastConsts.Gs) => OutOfRangeOutcome

\* C7: for estimate_swc with Gs < G0 and in-range gray levels G <= g2, the
\* estimate at G is >= the estimate at g2.
C7_Monotone ==
    (fn = "estimate_swc" /\ LastConsts.Gs < LastConsts.G0 /\ InRange(G, LastConsts)) =>
        \A g2 \in GrayArgs(LastConsts) :
            (InRange(g2, LastConsts) /\ G <= g2) =>
                /\ outcome.kind = "return"
                /\ outcome.value >= estimate_swc(g2, LastConsts, numpyArg).value

\* estimate_swc ran one step above GL_S with the default constants; its
\* estimate is below the one at GL_S and above the one at GL_0
C7_Witness ==
    /\ fn = "estimate_swc"
    /\ consts.default
    /\ G = GL_S * GScale + 1
    /\ outcome.kind = "return"
    /\ outcome.value < estimate_swc(GL_S * GScale, LastConsts, numpyArg).value
    /\ outcome.value > estimate_swc(GL_0 * GScale, LastConsts, numpyArg).value

\* C8: estimate_soil_moisture (Gs < G0) returns u_s at gray_level = GL_0,
\* its documented saturation (100% SWC) endpoint, and 0 at gray_level =
\* GL_s, its documented dry endpoint.
C8_InvertedConvention ==
    (fn = "estimate_soil_moisture" /\ LastConsts.Gs < LastConsts.G0) =>
        /\ G = LastConsts.G0 * GScale => outcome = Return(LastConsts.theta_s * Scale)
        /\ G = LastConsts.Gs * GScale => outcome = Return(0)

\* two points of the list share a raw value
HasDuplicateRaw(pts) ==
    \E i, j \in 1..Len(pts) : i # j /\ pts[i][1] = pts[j][1]

\* C9: a calibration_points list in which two points share a raw value is
\* rejected by __init__: no instance is constructed from it.
C9_DuplicateRawRejected ==
    (op # "none" /\ ~given.none /\ HasDuplicateRaw(given.pts)) =>
        ~constructed /\ err # "none"

\* C10: a calibration_points list of fewer than two points (empty, or one
\* point) is rejected by __init__: no instance is constructed, neither from
\* other points nor from an underdetermined fit.
C10_TooFewPointsRejected ==
    (op # "none" /\ ~given.none /\ Len(given.pts) < 2) => ~constructed

\* |x| <= 1e-9 for a finite x; the products stay below 2^31
WithinTolerance(x) ==
    /\ x.k = "fin"
    /\ \/ x.n = 0
       \/ Abs(x.n) <= 2 /\ x.d >= Abs(x.n) * 1000000000

\* the points of pts with the smallest and with the largest raw value
SmallestPoint(pts) ==
    CHOOSE i \in 1..Len(pts) : \A j \in 1..Len(pts) : pts[i][1] <= pts[j][1]

LargestPoint(pts) ==
    CHOOSE i \in 1..Len(pts) : \A j \in 1..Len(pts) : pts[i][1] >= pts[j][1]

\* a call of calibrate (directly or through read_calibrated) that returned,
\* on an instance whose points have pairwise distinct raw values
TransformedOnDistinctRaws ==
    /\ constructed
    /\ op \in {"calibrate", "read_calibrated"}
    /\ err = "none"
    /\ arg.k = "fin"
    /\ Len(calibration_points) >= 2
    /\ ~HasDuplicateRaw(calibration_points)

\* C11: the calibration transform clamps outside the calibrated range: a raw
\* value at or below the smallest calibration raw value yields that point's
\* reference value, and one at or above the largest yields the largest
\* point's reference value.
C11_ClampsOutsideRange ==
    TransformedOnDistinctRaws =>
        LET lo == calibration_points[SmallestPoint(calibration_points)]
            hi == calibration_points[LargestPoint(calibration_points)]
        IN  /\ ExtGe(Num(lo[1]), arg) => ret = Num(lo[2])
            /\ ExtGe(arg, Num(hi[1])) => ret = Num(hi[2])

\* C12: at every raw value of the calibration points the transform returns
\* that point's reference value, within 1e-9.
C12_RoundTripAtKnots ==
    TransformedOnDistinctRaws =>
        \A i \in 1..Len(calibration_points) :
            arg = Num(calibration_points[i][1]) =>
                WithinTolerance(ExtSub(ret, Num(calibration_points[i][2])))

\* the configuration __init__ derives from the list it was given
ConfigurationOf(g) ==
    {[points |-> PointsOrDefault(g), slope |-> f.slope, intercept |-> f.intercept] :
        f \in {e \in polyfit(PointsOrDefault(g)) : e.err = "none"}}

\* C14: once an instance is constructed, no call of read_raw, read_percent,
\* read_calibrated, read_calibrated_percent or calibrate, failing ones
\* included, changes calibration_points, slope or intercept: after every
\* call they are what __init__ derived from the list it was given (given
\* records that list), and calibrate returns, for a raw value, the value
\* that this configuration gives it.
C14_ConfigurationImmutable ==
    constructed =>
        /\ [points |-> calibration_points, slope |-> slope, intercept |-> intercept]
               \in ConfigurationOf(given)
        /\ (op = "calibrate" =>
               ret = PyMax(Num(0), ExtAdd(ExtMul(slope, arg), intercept)))

\* a call failed (a read on the closed bus, or a reading that cannot be
\* rounded) and the configuration is still the one of the construction
C14_Witness ==
    /\ constructed
    /\ op \in {"read_raw", "read_percent", "read_calibrated", "read_calibrated_percent"}
    /\ err # "none"
    /\ calibration_points = PointsOrDefault(given)
    /\ slope.k = "fin"
    /\ intercept.k = "fin"

\* the points of the scenario in spec.md section 8
ScenarioPoints == <<<<Num(220), Num(3)>>, <<Num(365), Rat(15, 2)>>, <<Num(680), Num(15)>>>>

\* C13 as stated: with the points [(220,3),(365,7.5),(680,15.0)] the
\* interpolation at raw = 492.5 yields 10.78125 (345/32).
C13_ScenarioAsStated ==
    (points = ScenarioPoints /\ rawValue = Rat(985, 2)) => value = Rat(345, 32)

\* C13: with the points [(220,3),(365,7.5),(680,15.0)] the interpolation at
\* raw = 492.5 yields 7.5 + 7.5 * 127.5 / 315 = 295/28 (about 10.535714), and
\* at 522.5, the midpoint of 365 and 680, it yields 11.25.
C13_ScenarioValue ==
    points = ScenarioPoints =>
        /\ rawValue = Rat(985, 2) => value = Rat(295, 28)
        /\ rawValue = Rat(1045, 2) => value = Rat(45, 4)

\* the scenario's query has been made
C13_Witness ==
    /\ points = ScenarioPoints
    /\ rawValue = Rat(985, 2)
    /\ value = Rat(295, 28)

\* C20: for an image of height and width >= 1 and a requested ROI size >= 1
\* in both dimensions, get_center_roi returns a rectangle inside the image
\* of exactly min(roi_h, h) rows and min(roi_w, w) columns, starting at
\* max(0, h//2 - roi_h//2) (resp. w); a dimension in which the request
\* exceeds the image is returned whole.
C20_CenterRoiInsideImage ==
    (roiIn.called /\ roiIn.h >= 1 /\ roiIn.w >= 1 /\ roiIn.roi_h >= 1 /\ roiIn.roi_w >= 1) =>
        /\ 0 <= roiOut.start_y /\ roiOut.start_y <= roiOut.end_y /\ roiOut.end_y <= roiIn.h
        /\ 0 <= roiOut.start_x /\ roiOut.start_x <= roiOut.end_x /\ roiOut.end_x <= roiIn.w
        /\ roiOut.rows = Min(roiIn.roi_h, roiIn.h)
        /\ roiOut.cols = Min(roiIn.roi_w, roiIn.w)
        /\ roiOut.end_y - roiOut.start_y = roiOut.rows
        /\ roiOut.end_x - roiOut.start_x = roiOut.cols
        /\ roiOut.start_y = Max(0, (roiIn.h \div 2) - (roiIn.roi_h \div 2))
        /\ roiOut.start_x = Max(0, (roiIn.w \div 2) - (roiIn.roi_w \div 2))
        /\ (roiIn.roi_h > roiIn.h => roiOut.start_y = 0 /\ roiOut.end_y = roiIn.h)
        /\ (roiIn.roi_w > roiIn.w => roiOut.start_x = 0 /\ roiOut.end_x = roiIn.w)

\* a request larger than the image in height and smaller in width, with an
\* odd ROI width in an even image width
C20_Witness ==
    /\ roiIn.called
    /\ roiIn.h >= 1 /\ roiIn.roi_h > roiIn.h
    /\ roiIn.w % 2 = 0 /\ roiIn.roi_w % 2 = 1 /\ roiIn.roi_w < roiIn.w
    /\ roiOut.rows = roiIn.h
    /\ roiOut.cols = roiIn.roi_w

\* the 1st and 99th percentile of a non-empty image, in 1/100
P1(img) == percentile(SortPixels(img), 1).v

P99(img) == percentile(SortPixels(img), 99).v

\* the image is empty or has no dynamic range: p1 = p99 for normalize,
\* min = max for apply_brightness_calibration
Degenerate(f, img) ==
    \/ img = <<>>
    \/ f = "normalize" /\ P1(img) = P99(img)
    \/ f = "apply_brightness_calibration"
           /\ \A i, j \in 1..Len(img) : img[i] = img[j]

\* C15: normalize and apply_brightness_calibration fail with an error when
\* the image is empty or has zero dynamic range; they never return an image
\* computed from a division by zero.
C15_DegenerateImageRejected ==
    (imgFn \in {"normalize", "apply_brightness_calibration"}
         /\ Degenerate(imgFn, image)) =>
        imgOut.kind = "raise"

\* C16: when no pixel of the image given to analyze_soil is valid (every
\* pixel is 0), its gray value is 0, not an undefined mean; the same holds
\* in the pipeline when the normalized image is all 0.
C16_NoValidPixelGivesZero ==
    /\ (imgFn = "analyze_soil" /\ \A i \in 1..Len(image) : image[i] = 0) =>
           imgOut.kind = "return" /\ imgOut.avg = NoAvg
    /\ (imgFn = "main" /\ imgOut.kind = "return"
            /\ \A i \in 1..Len(imgOut.gray) : imgOut.gray[i] = 0) =>
           imgOut.avg = NoAvg

\* analyze_soil was given a non-empty image of zeros and returned 0
C16_Witness ==
    /\ imgFn = "analyze_soil"
    /\ Len(image) >= 1
    /\ \A i \in 1..Len(image) : image[i] = 0
    /\ imgOut.kind = "return"
    /\ imgOut.avg = NoAvg

\* the pixels of the normalized image that gloss removal leaves in place
KeptPixels(gray) == SelectSeq(gray, LAMBDA v : v <= gloss_threshold)

\* C17: in the pipeline of model/gray_level.py the gray value handed to
\* estimate_swc is the mean over exactly the pixels of the normalized ROI
\* that gloss removal did not zero out: pixels above gloss_threshold are
\* left out, all others, those of value 0 included, are counted (for a ROI
\* with p1 < p99, which normalize can rescale).
C17_MeanOverKeptPixels ==
    (imgFn = "main" /\ imgOut.kind = "return" /\ P1(image) < P99(image)) =>
        IF KeptPixels(imgOut.gray) = <<>>
        THEN imgOut.avg = NoAvg
        ELSE imgOut.avg.sum * Len(KeptPixels(imgOut.gray))
                 = Sum(KeptPixels(imgOut.gray)) * imgOut.avg.cnt

\* image[i] > mean + threshold, without the division
AboveMean(img, i) == img[i] * Len(img) > Sum(img) + mean_threshold * Len(img)

\* what C18 says of preprocess_image: no_gloss is gray with the pixels above
\* gloss_threshold set to 0, and gray is what normalize returned
PreprocessFrame ==
    (imgFn = "preprocess_image" /\ imgOut.kind = "return") =>
        /\ imgOut.gray \in {o.gray : o \in normalize(image)}
        /\ Len(imgOut.no_gloss) = Len(imgOut.gray)
        /\ \A i \in 1..Len(imgOut.gray) :
               imgOut.no_gloss[i] =
                   IF imgOut.gray[i] > gloss_threshold THEN 0 ELSE imgOut.gray[i]

\* C18 as stated: eliminate_gloss replaces every pixel greater than
\* mean + threshold with the image mean and leaves every other pixel
\* unchanged; preprocess_image zeroes exactly the pixels above
\* gloss_threshold in no_gloss and returns gray unmodified.
C18_GlossAsStated ==
    /\ imgFn = "eliminate_gloss" =>
           /\ Len(imgOut.gray) = Len(image)
           /\ \A i \in 1..Len(image) :
                  IF AboveMean(image, i)
                  THEN imgOut.gray[i] * Len(image) = Sum(image)
                  ELSE imgOut.gray[i] = image[i]
    /\ PreprocessFrame

\* C18: eliminate_gloss replaces every pixel greater than mean + threshold
\* with the image mean truncated to an integer (the uint8 cast) and leaves
\* every other pixel unchanged; preprocess_image zeroes exactly the pixels
\* above gloss_threshold in no_gloss and returns gray unmodified.
C18_GlossRemoval ==
    /\ imgFn = "eliminate_gloss" =>
           /\ Len(imgOut.gray) = Len(image)
           /\ \A i \in 1..Len(image) :
                  IF AboveMean(image, i)
                  THEN imgOut.gray[i] = Sum(image) \div Len(image)
                  ELSE imgOut.gray[i] = image[i]
    /\ PreprocessFrame

\* eliminate_gloss replaced a pixel in an image whose mean is not an integer
\* and whose fraction is above one half, and left another pixel in place
C18_Witness ==
    /\ imgFn = "eliminate_gloss"
    /\ image # <<>>
    /\ 2 * (Sum(image) % Len(image)) > Len(image)
    /\ \E i, j \in 1..Len(image) :
           /\ AboveMean(image, i)
           /\ imgOut.gray[i] = Sum(image) \div Len(image)
           /\ ~AboveMean(image, j)
           /\ imgOut.gray[j] = image[j]

\* C19: for an image with p1 < p99 normalize returns an image of the same
\* shape, every pixel in 0..255, in which every pixel at or below p1 is 0
\* and every pixel at or above p99 is 255.
C19_PercentileNormalization ==
    (imgFn = "normalize" /\ image # <<>> /\ P1(image) < P99(image)) =>
        /\ imgOut.kind = "return"
        /\ Len(imgOut.gray) = Len(image)
        /\ \A i \in 1..Len(image) :
               /\ imgOut.gray[i] \in 0..255
               /\ 100 * image[i] <= P1(image) => imgOut.gray[i] = 0
               /\ 100 * image[i] >= P99(image) => imgOut.gray[i] = 255

\* C21: for every 3-byte SPI response (each byte in 0..255) the ADC code that
\* read_raw and ReadChannel assemble is an integer in 0..1023.
C21_AdcCodeIsTenBit ==
    adcFn # "none" =>
        /\ adcOut \in 0..1023
        /\ adcOut = ((adcIn[2] % 4) * 256) + adcIn[3]

\* read_raw has answered the response of all ones with the largest code
C21_Witness ==
    /\ adcFn = "read_raw"
    /\ adcIn = <<MaxByte, MaxByte, MaxByte>>
    /\ adcOut = 1023

\* C22: once a client has written the single byte 0x0F, the peripheral
\* eventually has closed the moisture sensor (if it has one) and stopped the
\* BLE server; every write stores its value, and the trigger is set by no
\* step other than a write of exactly b"\x0f".
C22_ShutdownOnCommand ==
    /\ (pOp = "write" /\ pArg = ShutdownCommand)
           ~> (runPc = "stopped" /\ moisture_sensor # "open")
    /\ [](pOp = "write" => charValue = pArg)
    /\ [][(~trigger /\ trigger') => (pOp' = "write" /\ pArg' = ShutdownCommand)]_vars

\* after the command the sensor is closed and the server has stopped
C22_Witness ==
    /\ runPc = "stopped"
    /\ moisture_sensor = "closed"
    /\ trigger
    /\ pOp = "write"
    /\ pArg = ShutdownCommand

\* C23: a read request whose sensor read succeeds stores and returns exactly
\* that reading, formatted as text with two decimals, whatever value the
\* characteristic held before (written by a client or returned earlier).
C23_ReadReturnsFreshReading ==
    (pOp = "read" /\ pRead = "ok") =>
        /\ pRet = Format2f(sensor_read_calibrated(pArg))
        /\ charValue = pRet
        /\ Len(pRet) >= 4
        /\ pRet[Len(pRet) - 2] = 46

\* a read that follows a client's write returns the reading of code 1023,
\* "30.72", not the written value
C23_Witness ==
    /\ pOp = "read"
    /\ pRead = "ok"
    /\ pArg = <<0, 3, 255>>
    /\ pBefore = <<15, 15>>
    /\ pRet = <<51, 48, 46, 55, 50>>

\* C24 as stated: while the server runs with an available sensor, the task
\* of update_moisture_readings is running (it refreshes the value and
\* notifies the subscribers every interval).
C24_UpdateTaskRuns ==
    (runPc = "waiting" /\ moisture_sensor = "open") => update_task # "none"

\* C28 as stated: read_calibrated is never called on a sensor whose SPI
\* device has been closed.
C28_NoReadAfterClose == pSpi # "closed"

\* C29: read_request never raises, and when there is no sensor or the sensor
\* read raises, the characteristic keeps its value and that value is returned.
C29_ReadRequestNeverRaises ==
    pOp = "read" =>
        /\ pExc = "none"
        /\ pRead \in {"skipped", "raised"} =>
               (charValue = pBefore /\ pRet = pBefore)

\* a failing sensor read has returned the value a client wrote before
C29_Witness ==
    /\ pOp = "read"
    /\ pRead = "raised"
    /\ pSpi = "open"
    /\ pBefore = <<49, 46, 53>>
    /\ pRet = <<49, 46, 53>>
    /\ pExc = "none"

\* what a client decodes from JSON text: the natural number at t[i..],
\* as <<value, index after it>>
RECURSIVE ParseNat(_, _, _)
ParseNat(t, i, acc) ==
    IF i <= Len(t) /\ t[i] \in 48..57
    THEN ParseNat(t, i + 1, acc * 10 + (t[i] - 48))
    ELSE <<acc, i>>

\* TRUE iff the literal lit stands at t[i..]
Expect(t, i, lit) ==
    i + Len(lit) - 1 <= Len(t) /\ SubSeq(t, i, i + Len(lit) - 1) = lit

ParseError == <<<<-1, -1>>>>

\* the objects {"moisture": m, "timestamp": s.0} from t[i..] up to the
\* closing bracket, appended to acc
RECURSIVE ParseReadings(_, _, _)
ParseReadings(t, i, acc) ==
    LET key1 == <<123, 34, 109, 111, 105, 115, 116, 117, 114, 101, 34, 58, 32>>
        key2 == <<44, 32, 34, 116, 105, 109, 101, 115, 116, 97, 109, 112, 34, 58, 32>>
    IN  IF ~Expect(t, i, key1) THEN ParseError
        ELSE LET m == ParseNat(t, i + Len(key1), 0)
             IN  IF m[2] = i + Len(key1) \/ ~Expect(t, m[2], key2) THEN ParseError
                 ELSE LET ts == ParseNat(t, m[2] + Len(key2), 0)
                          got == Append(acc, <<m[1], ts[1]>>)
                      IN  IF ts[2] = m[2] + Len(key2) \/ ~Expect(t, ts[2], <<46, 48, 125>>)
                          THEN ParseError
                          ELSE IF Expect(t, ts[2] + 3, <<44, 32>>)
                               THEN ParseReadings(t, ts[2] + 5, got)
                               ELSE IF Expect(t, ts[2] + 3, <<93>>) /\ Len(t) = ts[2] + 3
                                    THEN got
                                    ELSE ParseError

\* json.loads of the text of a list of readings
json_loads(t) ==
    IF t = <<91, 93>> THEN <<>>
    ELSE IF Expect(t, 1, <<91>>) THEN ParseReadings(t, 2, <<>>)
    ELSE ParseError

\* C25: after n samples, however interleaved with read requests,
\* moisture_data holds exactly the min(n, 24) most recent readings in
\* acquisition order, and a read request returns JSON text that decodes to
\* exactly that sequence and leaves the deque as it was.
C25_LastReadingsKept ==
    LET n == Len(acquired)
        k == IF n < 24 THEN n ELSE 24
    IN  /\ moisture_data = SubSeq(acquired, n - k + 1, n)
        /\ mainOp = "read" => json_loads(snapshot) = moisture_data

\* 26 samples were taken: the two oldest are gone and a read returned the rest
C25_Witness ==
    /\ Len(acquired) = 26
    /\ mainOp = "read"
    /\ Len(moisture_data) = 24
    /\ moisture_data[1][2] = 20
    /\ moisture_data[24][2] = 250
    /\ Len(snapshot) > 24

\* C26: retry_connect terminates after at most max_attempts attempts; it
\* returns a client only when its last attempt connected and reported
\* is_connected, it returns None when every attempt failed or raised, and it
\* lets no connection exception out.
C26_RetryTerminates ==
    /\ <>(rcPc = "done")
    /\ [](rcAttempt <= (IF rcMax > 0 THEN rcMax ELSE 0))
    /\ [](rcPc = "done" =>
              /\ rcExc = "none"
              /\ rcResult \in {"client", "None"}
              /\ rcResult = "client" => (rcLast = "connected" /\ linkUp)
              /\ rcResult = "None" =>
                     (rcLast # "connected"
                          /\ rcAttempt = (IF rcMax > 0 THEN rcMax ELSE 0)))

\* retry_connect returned None after max_attempts = 3 attempts, the last of
\* which raised
C26_Witness ==
    /\ rcPc = "done"
    /\ rcMax = 3
    /\ rcAttempt = 3
    /\ rcLast = "Exception"
    /\ rcResult = "None"
    /\ rcExc = "none"

\* C27: the communication loop makes at most 10 writes per connection; it
\* goes on only while every write so far succeeded and the client was
\* connected, a write error or a lost connection ends it at once; and however
\* it ended, the client is disconnected when the next scan cycle starts.
C27_CommunicationLoopBounded ==
    /\ cWrites <= 10
    /\ cPc = "comm" => (cWrites = cI /\ cExit = "none")
    /\ cExit = "write_error" => cWrites = cI + 1
    /\ cExit = "lost" => cWrites = cI
    /\ cExit = "finished" => (cWrites = 10 /\ cI = 10)
    /\ (cPc = "scan" /\ cExit \in {"finished", "write_error", "lost"}) => ~linkUp

\* a full loop of 10 writes has ended and the next scan cycle starts
C27_Witness ==
    /\ cPc = "scan"
    /\ cExit = "finished"
    /\ cWrites = 10
    /\ ~linkUp

\* C30: at the start of every scan cycle no client is connected, whichever
\* way the previous session ended.
C30_NoClientLeftConnected ==
    cPc = "scan" => ~linkUp

\* a session that found no target characteristic has ended
C30_Witness ==
    /\ cPc = "scan"
    /\ cExit = "no_char"
    /\ rcResult = "client"
    /\ ~linkUp

====
